---- MODULE Spec2Model ----
(***************************************************************************)
(* A model of dspy-promptfoo: the DSPyProvider program registry            *)
(* (provider.py), the call_api entry point with its input building,        *)
(* output/usage extraction and response envelope, and PromptfooAuth        *)
(* (auth.py).                                                              *)
(*                                                                         *)
(* Python dicts are functions with a finite domain of keys; a missing key  *)
(* is a key outside DOMAIN.  Python strings are TLA+ strings, except the   *)
(* prompt, which is a sequence of one-character strings so that the        *)
(* substring test of call_api can be computed.  Object identity is the     *)
(* field id of a program record: ids are handed out by a counter, one per  *)
(* object constructed.                                                     *)
(***************************************************************************)
EXTENDS Integers, Sequences, FiniteSets, TLC

VARIABLES
    compiled_modules,   \* DSPyProvider.compiled_modules of the long-lived provider
    instances,          \* number of program objects constructed so far
    last,               \* record of the last operation: its inputs and its outcome
    log,                \* history: (module_type, signature, id) of every program handed out
    environ,            \* os.environ, the variables auth.py reads and writes
    auth                \* the PromptfooAuth object

vars == <<compiled_modules, instances, last, log, environ, auth>>

\* ---------------------------------------------------------------- bounds

\* Program objects that may be constructed in one behaviour.
MaxInstances == 2

\* ------------------------------------------------------------ dictionaries

EmptyDict == [k \in {} |-> TRUE]

\* dict.get(key, default)
Get(d, key, default) == IF key \in DOMAIN d THEN d[key] ELSE default

\* ---------------------------------------------------- configuration inputs

ModuleTypes ==
    {"predict", "chain_of_thought", "program_of_thought", "react", "predict_v2"}

Example1 == [question |-> "2+2", answer |-> "4"]
Example2 == [text |-> "hello", summary |-> "hi", inputs |-> <<"text">>]

\* The fields of a descriptor other than module_type and signature, in the
\* combinations that reach every branch of _get_or_create_module and
\* _optimize_module.
OtherFields ==
    { EmptyDict,
      ("optimize" :> TRUE) @@ ("examples" :> <<>>) @@ ("optimizer" :> "BootstrapFewShot"),
      ("optimize" :> TRUE) @@ ("examples" :> <<Example1>>),
      ("optimize" :> TRUE) @@ ("examples" :> <<Example1, Example2>>)
          @@ ("optimizer" :> "BootstrapFewShotWithRandomSearch")
          @@ ("tools" :> <<"search">>) @@ ("debug" :> TRUE),
      ("optimize" :> TRUE) @@ ("examples" :> <<Example1>>) @@ ("optimizer" :> "MIPROv2"),
      ("optimize" :> FALSE) @@ ("examples" :> <<Example1>>)
          @@ ("optimizer" :> "BootstrapFewShot") @@ ("output_field" :> "summary")
          @@ ("tools" :> <<>>) @@ ("debug" :> FALSE) }

\* module_type and signature: every module kind with the default signature
\* (given or left out), and a second signature for some kinds.  "predict_v2"
\* is a kind the provider does not know.
KeyFields ==
    {EmptyDict, "signature" :> "question -> answer"}
    \cup {"module_type" :> m : m \in ModuleTypes}
    \cup {("module_type" :> m) @@ ("signature" :> "v2_question -> answer") :
              m \in {"predict", "react"}}
    \cup {"signature" :> "v2_question -> answer"}

Configs == {k @@ o : k \in KeyFields, o \in OtherFields}

\* ------------------------------------------------------------- programs

NoModule ==
    [id |-> 0, kind |-> "", signature |-> "", tools |-> <<>>,
     compiled_by |-> "", student |-> 0, trainset |-> <<>>]

\* A freshly constructed dspy module object.
NewModule(id, kind, signature, tools) ==
    [id |-> id, kind |-> kind, signature |-> signature, tools |-> tools,
     compiled_by |-> "", student |-> 0, trainset |-> <<>>]

\* A cache key that also tells optimized descriptors apart.
CacheKeyWithOptimize(config) ==
    Get(config, "module_type", "predict") \o "_"
        \o Get(config, "signature", "question -> answer")
        \o (IF Get(config, "optimize", FALSE) THEN "_optimized" ELSE "")

\* cache_key = f"{module_type}_{signature}"
CacheKey(config) ==
    Get(config, "module_type", "predict") \o "_"
        \o Get(config, "signature", "question -> answer")

\* A chain whose final else builds a ChainOfThought.
CreateModuleOtherDefault(config, id) ==
    LET module_type == Get(config, "module_type", "predict")
        signature == Get(config, "signature", "question -> answer")
        tools == Get(config, "tools", <<>>)
    IN  IF module_type = "predict" THEN NewModule(id, "Predict", signature, <<>>)
        ELSE IF module_type = "program_of_thought"
            THEN NewModule(id, "ProgramOfThought", signature, <<>>)
        ELSE IF module_type = "react"
            THEN NewModule(id, "ReAct", signature,
                           IF Len(tools) = 0 THEN <<"dummy_tool">> ELSE tools)
        ELSE NewModule(id, "ChainOfThought", signature, <<>>)

\* The if/elif chain that picks the dspy class.
CreateModule(config, id) ==
    LET module_type == Get(config, "module_type", "predict")
        signature == Get(config, "signature", "question -> answer")
        tools == Get(config, "tools", <<>>)
    IN  IF module_type = "predict" THEN NewModule(id, "Predict", signature, <<>>)
        ELSE IF module_type = "chain_of_thought"
            THEN NewModule(id, "ChainOfThought", signature, <<>>)
        ELSE IF module_type = "program_of_thought"
            THEN NewModule(id, "ProgramOfThought", signature, <<>>)
        ELSE IF module_type = "react"
            THEN NewModule(id, "ReAct", signature,
                           IF Len(tools) = 0 THEN <<"dummy_tool">> ELSE tools)
        ELSE NewModule(id, "Predict", signature, <<>>)

\* dspy.Example(**ex).with_inputs(*ex.get("inputs", ["question"]))
Trainset(examples) ==
    [i \in 1..Len(examples) |->
        [fields |-> examples[i], inputs |-> Get(examples[i], "inputs", <<"question">>)]]

SupportedOptimizers == {"BootstrapFewShot", "BootstrapFewShotWithRandomSearch"}

\* _optimize_module without the early return on empty examples.
OptimizeModuleNoExamplesCheck(module, config, fresh, compile_ok) ==
    LET optimizer_type == Get(config, "optimizer", "BootstrapFewShot")
        trainset == Trainset(Get(config, "examples", <<>>))
    IN  IF optimizer_type \in SupportedOptimizers
            THEN IF compile_ok
                    THEN [raised |-> FALSE, invoked |-> TRUE,
                          module |-> [module EXCEPT !.id = fresh,
                                                    !.compiled_by = optimizer_type,
                                                    !.student = module.id,
                                                    !.trainset = trainset]]
                    ELSE [raised |-> TRUE, invoked |-> TRUE, module |-> NoModule]
        ELSE [raised |-> FALSE, module |-> module, invoked |-> FALSE]

\* _optimize_module.  compile_ok is the outcome of the external
\* optimizer.compile: it returns a new program object (id fresh) or raises.
OptimizeModule(module, config, fresh, compile_ok) ==
    LET optimizer_type == Get(config, "optimizer", "BootstrapFewShot")
        examples == Get(config, "examples", <<>>)
        trainset == Trainset(examples)
    IN  IF Len(examples) = 0
            THEN [raised |-> FALSE, module |-> module, invoked |-> FALSE]
        ELSE IF optimizer_type \in SupportedOptimizers
            THEN IF compile_ok
                    THEN [raised |-> FALSE, invoked |-> TRUE,
                          module |-> [module EXCEPT !.id = fresh,
                                                    !.compiled_by = optimizer_type,
                                                    !.student = module.id,
                                                    !.trainset = trainset]]
                    ELSE [raised |-> TRUE, invoked |-> TRUE, module |-> NoModule]
        ELSE [raised |-> FALSE, module |-> module, invoked |-> FALSE]

\* `if cache_key in self.compiled_modules`
CacheHit(cache, cache_key) == cache_key \in DOMAIN cache

\* self.compiled_modules[cache_key] = module
Store(cache, cache_key, module) ==
    [k \in DOMAIN cache \cup {cache_key} |-> IF k = cache_key THEN module ELSE cache[k]]

\* The outcomes of the external calls one resolution may make: the dspy
\* class constructor and optimizer.compile.
Externals ==
    {[ctor_ok |-> TRUE, compile_ok |-> TRUE],
     [ctor_ok |-> FALSE, compile_ok |-> TRUE],
     [ctor_ok |-> TRUE, compile_ok |-> FALSE]}

\* A resolution that files the freshly constructed module under its key
\* before it runs the optimizer.
GetOrCreateStoreFirst(cache, config, made, ext) ==
    LET cache_key == CacheKey(config)
        base == CreateModule(config, made + 1)
        opt == IF Get(config, "optimize", FALSE)
                  THEN OptimizeModule(base, config, made + 2, ext.compile_ok)
                  ELSE [raised |-> FALSE, module |-> base, invoked |-> FALSE]
    IN  IF CacheHit(cache, cache_key)
            THEN [raised |-> FALSE, module |-> cache[cache_key], cache |-> cache,
                  hit |-> TRUE, base |-> NoModule, invoked |-> FALSE, made |-> made]
        ELSE IF ~ext.ctor_ok
            THEN [raised |-> TRUE, module |-> NoModule, cache |-> cache,
                  hit |-> FALSE, base |-> NoModule, invoked |-> FALSE, made |-> made]
        ELSE IF opt.raised
            THEN [raised |-> TRUE, module |-> NoModule,
                  cache |-> Store(cache, cache_key, base),
                  hit |-> FALSE, base |-> base, invoked |-> opt.invoked, made |-> made + 1]
        ELSE [raised |-> FALSE, module |-> opt.module,
              cache |-> Store(cache, cache_key, opt.module),
              hit |-> FALSE, base |-> base, invoked |-> opt.invoked,
              made |-> IF opt.module.id = base.id THEN made + 1 ELSE made + 2]

\* _get_or_create_module on a provider whose cache is `cache`, when `made`
\* objects exist.  Returns the cache afterwards, the returned module, and
\* what happened on the way.
GetOrCreate(cache, config, made, ext) ==
    LET cache_key == CacheKey(config)
        base == CreateModule(config, made + 1)
        opt == IF Get(config, "optimize", FALSE)
                  THEN OptimizeModule(base, config, made + 2, ext.compile_ok)
                  ELSE [raised |-> FALSE, module |-> base, invoked |-> FALSE]
    IN  IF CacheHit(cache, cache_key)
            THEN [raised |-> FALSE, module |-> cache[cache_key], cache |-> cache,
                  hit |-> TRUE, base |-> NoModule, invoked |-> FALSE, made |-> made]
        ELSE IF ~ext.ctor_ok
            THEN [raised |-> TRUE, module |-> NoModule, cache |-> cache,
                  hit |-> FALSE, base |-> NoModule, invoked |-> FALSE, made |-> made]
        ELSE IF opt.raised
            THEN [raised |-> TRUE, module |-> NoModule, cache |-> cache,
                  hit |-> FALSE, base |-> base, invoked |-> opt.invoked, made |-> made]
        ELSE [raised |-> FALSE, module |-> opt.module,
              cache |-> Store(cache, cache_key, opt.module),
              hit |-> FALSE, base |-> base, invoked |-> opt.invoked,
              made |-> IF opt.module.id = base.id THEN made + 1 ELSE made + 2]

\* What a behaviour remembers of a program handed out for a descriptor.
Handed(config, module) ==
    [module_type |-> Get(config, "module_type", "predict"),
     signature |-> Get(config, "signature", "question -> answer"),
     id |-> module.id]

\* ------------------------------------------------ the program registry

NoAuth == [constructed |-> FALSE]

InitRegistry ==
    /\ compiled_modules = EmptyDict
    /\ instances = 0
    /\ last = [op |-> "__init__"]
    /\ log = {}
    /\ environ = EmptyDict
    /\ auth = NoAuth

\* provider._get_or_create_module(config) on the long-lived provider.
\* compile_raised: optimizer.compile was called and raised.
GetOrCreateModule(config, ext) ==
    LET r == GetOrCreate(compiled_modules, config, instances, ext)
    IN  /\ r.made <= MaxInstances
        /\ compiled_modules' = r.cache
        /\ instances' = r.made
        /\ last' = [op |-> "_get_or_create_module", config |-> config,
                    raised |-> r.raised, module |-> r.module, hit |-> r.hit,
                    base |-> r.base, invoked |-> r.invoked,
                    compile_raised |-> r.invoked /\ ~ext.compile_ok]
        /\ log' = IF r.raised THEN log ELSE log \cup {Handed(config, r.module)}
        /\ UNCHANGED <<environ, auth>>

NextRegistry == \E config \in Configs, ext \in Externals : GetOrCreateModule(config, ext)

Spec == InitRegistry /\ [][NextRegistry]_vars

\* ------------------------------------------------------- python values

\* A Python value carries its type: str, int, None, a dict, a list, a bound
\* method.  Values of different types are never equal.
StrV(s) == [t |-> "str", v |-> s]
IntV(n) == [t |-> "int", v |-> n]
NoneV == [t |-> "NoneType"]
DictV(d) == [t |-> "dict", v |-> d]
ListV(l) == [t |-> "list", v |-> l]
MethodV(name) == [t |-> "method", v |-> name]

Digits == <<"0", "1", "2", "3", "4", "5", "6", "7", "8", "9">>

RECURSIVE NatToStr(_)
NatToStr(n) == IF n < 10 THEN Digits[n + 1] ELSE NatToStr(n \div 10) \o Digits[(n % 10) + 1]

\* str(value)
Str(val) ==
    CASE val.t = "str" -> val.v
      [] val.t = "int" -> IF val.v < 0 THEN "-" \o NatToStr(-val.v) ELSE NatToStr(val.v)
      [] val.t = "NoneType" -> "None"
      [] val.t = "method" -> "<bound method " \o val.v \o ">"
      [] val.t = "dict" -> "{...}"
      [] val.t = "list" -> "[...]"

\* A result object as call_api sees it: its runtime type name, its attribute
\* namespace (what hasattr and getattr see, methods included), whether it is
\* a dict and then its items, its str(), and what its usage-log accessor
\* returns when it has one.
ResultObj(type, attrs, is_dict, items, repr, lm_usage) ==
    [type |-> type, attrs |-> attrs, is_dict |-> is_dict, items |-> items,
     repr |-> repr, lm_usage |-> lm_usage]

\* hasattr(result, name)
HasAttr(result, name) == name \in DOMAIN result.attrs

\* getattr(result, name): AttributeError when the attribute is missing.
GetAttr(result, name) ==
    IF name \in DOMAIN result.attrs
        THEN [raised |-> FALSE, value |-> result.attrs[name]]
        ELSE [raised |-> TRUE, value |-> NoneV]

\* result[key]: TypeError on an object that is not subscriptable, KeyError
\* on a missing key.
GetItem(result, key) ==
    IF result.is_dict /\ key \in DOMAIN result.items
        THEN [raised |-> FALSE, value |-> result.items[key]]
        ELSE [raised |-> TRUE, value |-> NoneV]

\* _extract_output without the final fallback to str(result).
ExtractOutputNoFallback(result, config) ==
    LET output_field == Get(config, "output_field", "answer")
        attr == GetAttr(result, output_field)
        item == GetItem(result, output_field)
    IN  IF result.is_dict /\ output_field \in DOMAIN result.items
            THEN [raised |-> item.raised,
                  value |-> IF item.raised THEN "" ELSE Str(item.value)]
        ELSE [raised |-> attr.raised,
              value |-> IF attr.raised THEN "" ELSE Str(attr.value)]

\* _extract_output
ExtractOutput(result, config) ==
    LET output_field == Get(config, "output_field", "answer")
        attr == GetAttr(result, output_field)
        item == GetItem(result, output_field)
    IN  IF HasAttr(result, output_field)
            THEN [raised |-> attr.raised,
                  value |-> IF attr.raised THEN "" ELSE Str(attr.value)]
        ELSE IF result.is_dict /\ output_field \in DOMAIN result.items
            THEN [raised |-> item.raised,
                  value |-> IF item.raised THEN "" ELSE Str(item.value)]
        ELSE [raised |-> FALSE, value |-> result.repr]

\* What `for entry in lm_usage` yields for a list.
Iterate(val) == IF val.t = "list" THEN val.v ELSE <<>>

\* `if lm_usage:` for what a usage accessor returns, None or a list
Truthy(val) ==
    CASE val.t = "NoneType" -> FALSE
      [] val.t = "list" -> Len(val.v) > 0
      [] OTHER -> TRUE

\* A loop that keeps only the last entry's count (= instead of +=).
RECURSIVE SumUsageLastOnly(_, _)
SumUsageLastOnly(entries, field) ==
    IF Len(entries) = 0 THEN 0
    ELSE LET entry == entries[Len(entries)]
             usage_data == IF entry.t = "dict" THEN Get(entry.v, "usage", EmptyDict)
                           ELSE EmptyDict
         IN  Get(usage_data, field, 0)

\* The body of the loop over the usage log: entries that are not dicts are
\* skipped, missing keys count as 0.
RECURSIVE SumUsage(_, _)
SumUsage(entries, field) ==
    IF Len(entries) = 0 THEN 0
    ELSE LET entry == Head(entries)
             usage_data == IF entry.t = "dict" THEN Get(entry.v, "usage", EmptyDict)
                           ELSE EmptyDict
         IN  Get(usage_data, field, 0) + SumUsage(Tail(entries), field)

\* _get_usage_stats
GetUsageStats(result) ==
    LET accessor == GetAttr(result, "get_lm_usage")
        lm_usage == result.lm_usage
        entries == Iterate(lm_usage)
        total_tokens == SumUsage(entries, "total_tokens")
        prompt_tokens == SumUsage(entries, "prompt_tokens")
        completion_tokens == SumUsage(entries, "completion_tokens")
    IN  IF HasAttr(result, "get_lm_usage")
            THEN IF accessor.raised THEN [raised |-> TRUE, value |-> EmptyDict]
                 ELSE IF Truthy(lm_usage) /\ total_tokens > 0
                     THEN [raised |-> FALSE,
                           value |-> ("total" :> total_tokens)
                                     @@ ("prompt" :> prompt_tokens)
                                     @@ ("completion" :> completion_tokens)]
                     ELSE [raised |-> FALSE, value |-> EmptyDict]
        ELSE [raised |-> FALSE, value |-> EmptyDict]

\* ------------------------------------------------------ input building

\* needle in text, for sequences of characters
Contains(text, needle) ==
    \E i \in 0..(Len(text) - Len(needle)) :
        \A j \in 1..Len(needle) : text[i + j] = needle[j]

TemplateMarker == <<"{", "{">>

\* kwargs.update(other)
Update(d, other) ==
    [k \in DOMAIN d \cup DOMAIN other |-> IF k \in DOMAIN other THEN other[k] ELSE d[k]]

\* Input building in which the prompt wins over vars["question"].
BuildInputsPromptWins(prompt, vars_) ==
    IF Contains(prompt, TemplateMarker)
        THEN Update(EmptyDict, vars_)
        ELSE Update(vars_, "question" :> prompt)

\* The kwargs call_api builds for the module call.
BuildInputs(prompt, vars_) ==
    IF Contains(prompt, TemplateMarker)
        THEN Update(EmptyDict, vars_)
        ELSE Update("question" :> prompt, vars_)

\* ------------------------------------------------------------- call_api

\* DSPyProvider.__init__: needs OPENAI_API_KEY, starts with an empty cache.
ProviderInit(env) ==
    IF "OPENAI_API_KEY" \notin DOMAIN env \/ env["OPENAI_API_KEY"] = ""
        THEN [raised |-> TRUE, msg |-> "OPENAI_API_KEY environment variable is required",
              compiled_modules |-> EmptyDict]
        ELSE [raised |-> FALSE, msg |-> "", compiled_modules |-> EmptyDict]

NoResult == ResultObj("", EmptyDict, FALSE, EmptyDict, "", NoneV)

\* The `except Exception as e` branch of call_api.
ErrorEnvelope(msg) == ("error" :> ("DSPy Provider Error: " \o msg)) @@ ("output" :> "")

\* A response whose metadata reports whether optimization could apply.
SuccessEnvelopeApplied(config, result, output, usage, now) ==
    ("output" :> output)
    @@ (IF usage /= EmptyDict THEN "tokenUsage" :> usage ELSE EmptyDict)
    @@ ("metadata" :> [module_type |-> Get(config, "module_type", "predict"),
                       signature |-> Get(config, "signature", "question -> answer"),
                       optimized |-> Get(config, "optimize", FALSE)
                                     /\ Len(Get(config, "examples", <<>>)) > 0,
                       timestamp |-> now])
    @@ (IF Get(config, "debug", FALSE)
            THEN "debug" :> [full_result |-> result.repr, type |-> result.type]
            ELSE EmptyDict)

\* The response call_api builds after a successful module call.
SuccessEnvelope(config, result, output, usage, now) ==
    ("output" :> output)
    @@ (IF usage /= EmptyDict THEN "tokenUsage" :> usage ELSE EmptyDict)
    @@ ("metadata" :> [module_type |-> Get(config, "module_type", "predict"),
                       signature |-> Get(config, "signature", "question -> answer"),
                       optimized |-> Get(config, "optimize", FALSE),
                       timestamp |-> now])
    @@ (IF Get(config, "debug", FALSE)
            THEN "debug" :> [full_result |-> result.repr, type |-> result.type]
            ELSE EmptyDict)

\* A try block entered only after the provider is constructed.
InTryAfterProvider(stage) == stage \in {"resolve", "invoke", "extract", "usage"}

\* Whether the try block of call_api covers a stage of the call.
InTry(stage) == stage \in {"provider", "resolve", "invoke", "extract", "usage"}

\* How far call_api got, given what each of its statements produced: the
\* provider, the config, the resolution r, the kwargs, the outcomes ext of
\* the external calls (ext.call is the module call's result or exception,
\* ext.msg the message of an external exception), and the extracted output
\* and usage.
CallApiStages(provider, config, r, kwargs, ext, output, usage) ==
    LET blank == [stage |-> "", raised |-> TRUE, msg |-> "", config |-> config,
                  module |-> NoModule, base |-> NoModule, invoked |-> FALSE,
                  hit |-> FALSE, cache |-> EmptyDict, made |-> r.made,
                  kwargs |-> EmptyDict, called |-> FALSE, result |-> NoResult,
                  output |-> "", usage |-> EmptyDict]
        resolved == [blank EXCEPT !.module = r.module, !.base = r.base,
                                  !.invoked = r.invoked, !.hit = r.hit,
                                  !.cache = r.cache]
        invoked == [resolved EXCEPT !.kwargs = kwargs, !.called = TRUE]
    IN  IF provider.raised
            THEN [blank EXCEPT !.stage = "provider", !.msg = provider.msg]
        ELSE IF r.raised
            THEN [resolved EXCEPT !.stage = "resolve", !.msg = ext.msg]
        ELSE IF ext.call.raised
            THEN [invoked EXCEPT !.stage = "invoke", !.msg = ext.msg]
        ELSE IF output.raised
            THEN [invoked EXCEPT !.stage = "extract", !.result = ext.call.result,
                                 !.msg = "extract"]
        ELSE IF usage.raised
            THEN [invoked EXCEPT !.stage = "usage", !.result = ext.call.result,
                                 !.msg = "usage"]
        ELSE [invoked EXCEPT !.stage = "done", !.raised = FALSE,
                             !.result = ext.call.result,
                             !.output = output.value, !.usage = usage.value]

\* What call_api hands back: the success envelope, the error envelope of the
\* except branch, or nothing when an exception leaves the function.
Respond(o, now) ==
    [propagated |-> o.raised /\ ~InTry(o.stage),
     response |-> IF o.raised
                      THEN IF InTry(o.stage) THEN ErrorEnvelope(o.msg) ELSE EmptyDict
                      ELSE SuccessEnvelope(o.config, o.result, o.output, o.usage, now)]

\* ------------------------------------------------- inputs of call_api

UsageEntry(total, prompt, completion) ==
    DictV("usage" :> (("total_tokens" :> total) @@ ("prompt_tokens" :> prompt)
                      @@ ("completion_tokens" :> completion)))

\* A dspy Prediction with an answer and a usage log of two entries.
PredictionParis ==
    ResultObj("Prediction",
              ("answer" :> StrV("Paris")) @@ ("get_lm_usage" :> MethodV("get_lm_usage")),
              FALSE, EmptyDict, "Prediction(answer='Paris')",
              ListV(<<UsageEntry(10, 4, 6), UsageEntry(15, 5, 10)>>))

\* A Prediction whose answer is a number and whose usage accessor returns None.
PredictionNumber ==
    ResultObj("Prediction",
              ("answer" :> IntV(42)) @@ ("get_lm_usage" :> MethodV("get_lm_usage")),
              FALSE, EmptyDict, "Prediction(answer=42)", NoneV)

\* A plain dict result.
DictSummary ==
    ResultObj("dict", ("keys" :> MethodV("keys")) @@ ("items" :> MethodV("items")),
              TRUE, "summary" :> StrV("short"), "{'summary': 'short'}", NoneV)

\* A plain string result.
StrResult ==
    ResultObj("str", "lower" :> MethodV("lower"), FALSE, EmptyDict, "raw text", NoneV)

ApiResults == {PredictionParis, PredictionNumber, DictSummary, StrResult}

ApiExternals ==
    {[ctor_ok |-> TRUE, compile_ok |-> TRUE, msg |-> "",
      call |-> [raised |-> FALSE, result |-> r]] : r \in ApiResults}
    \cup {[ctor_ok |-> FALSE, compile_ok |-> TRUE, msg |-> "bad signature",
           call |-> [raised |-> FALSE, result |-> NoResult]],
          [ctor_ok |-> TRUE, compile_ok |-> FALSE, msg |-> "compile failed",
           call |-> [raised |-> FALSE, result |-> PredictionParis]]}
    \cup {[ctor_ok |-> TRUE, compile_ok |-> TRUE, msg |-> m,
           call |-> [raised |-> TRUE, result |-> NoResult]] : m \in {"", "rate limit"}}

ApiConfigs ==
    { EmptyDict,
      ("module_type" :> "chain_of_thought") @@ ("signature" :> "question -> answer")
          @@ ("debug" :> TRUE),
      "module_type" :> "predict_v2",
      ("module_type" :> "predict_v2") @@ ("signature" :> "v2_question -> answer")
          @@ ("optimize" :> TRUE) @@ ("examples" :> <<Example1>>)
          @@ ("output_field" :> "summary"),
      ("module_type" :> "react") @@ ("optimize" :> TRUE) @@ ("debug" :> FALSE),
      ("module_type" :> "predict") @@ ("optimize" :> TRUE) @@ ("examples" :> <<Example1>>)
          @@ ("optimizer" :> "MIPROv2") @@ ("debug" :> TRUE),
      ("module_type" :> "program_of_thought") @@ ("optimize" :> TRUE)
          @@ ("examples" :> <<Example1, Example2>>)
          @@ ("optimizer" :> "BootstrapFewShotWithRandomSearch"),
      ("signature" :> "v2_question -> answer") @@ ("optimize" :> FALSE)
          @@ ("examples" :> <<Example1>>) @@ ("output_field" :> "keys") }

ApiOptions == {EmptyDict} \cup {"config" :> c : c \in ApiConfigs}

PlainPrompt == <<"H", "i", "{", "?">>
TemplatePrompt == <<"A", "{", "{", "q", "}", "}">>
ApiPrompts == {PlainPrompt, TemplatePrompt}

ApiContexts ==
    { EmptyDict,
      "vars" :> EmptyDict,
      "vars" :> (("question" :> <<"Q">>) @@ ("topic" :> <<"t">>)) }

ApiEnvs ==
    {EmptyDict, "OPENAI_API_KEY" :> "", "OPENAI_API_KEY" :> "sk-test"}

Now == "2025-01-01T00:00:00"

InitApi ==
    /\ compiled_modules = EmptyDict
    /\ instances = 0
    /\ last = [op |-> "import"]
    /\ log = {}
    /\ environ \in ApiEnvs
    /\ auth = NoAuth

\* call_api(prompt, options, context), statement by statement.  A provider
\* that could not be constructed leaves nothing to resolve: the resolution
\* is then computed on an empty cache and not used.
CallApi(prompt, options, context, ext) ==
    \E provider \in {ProviderInit(environ)} :
    \E config \in {Get(options, "config", EmptyDict)} :
    \E r \in {IF provider.raised
                 THEN [GetOrCreate(EmptyDict, config, instances, ext)
                          EXCEPT !.made = instances]
                 ELSE GetOrCreate(provider.compiled_modules, config, instances, ext)} :
    \E kwargs \in {BuildInputs(prompt, Get(context, "vars", EmptyDict))} :
    \E output \in {ExtractOutput(ext.call.result, config)} :
    \E usage \in {GetUsageStats(ext.call.result)} :
    \E o \in {CallApiStages(provider, config, r, kwargs, ext, output, usage)} :
        /\ o.made <= MaxInstances
        /\ instances' = o.made
        /\ last' = [op |-> "call_api", prompt |-> prompt, options |-> options,
                    context |-> context, ext |-> ext] @@ o @@ Respond(o, Now)
        /\ UNCHANGED <<compiled_modules, log, environ, auth>>

NextApi ==
    \E prompt \in ApiPrompts, options \in ApiOptions, context \in ApiContexts,
       ext \in ApiExternals : CallApi(prompt, options, context, ext)

SpecApi == InitApi /\ [][NextApi]_vars

\* ------------------- resolutions and calls in one process, optimizer failing

\* Descriptors of two keys, with and without an optimization that reaches
\* optimizer.compile.
FailureConfigs ==
    { EmptyDict,
      ("optimize" :> TRUE) @@ ("examples" :> <<Example1>>),
      ("optimize" :> TRUE) @@ ("examples" :> <<>>),
      "module_type" :> "react",
      ("module_type" :> "react") @@ ("optimize" :> TRUE)
          @@ ("examples" :> <<Example1, Example2>>)
          @@ ("optimizer" :> "BootstrapFewShotWithRandomSearch") }

InitFailure ==
    /\ compiled_modules = EmptyDict
    /\ instances = 0
    /\ last = [op |-> "__init__"]
    /\ log = {}
    /\ environ = "OPENAI_API_KEY" :> "sk-test"
    /\ auth = NoAuth

NextFailure ==
    \/ \E config \in FailureConfigs, ext \in Externals : GetOrCreateModule(config, ext)
    \/ \E prompt \in ApiPrompts, config \in FailureConfigs, ext \in ApiExternals :
           CallApi(prompt, "config" :> config, EmptyDict, ext)

SpecFailure == InitFailure /\ [][NextFailure]_vars

\* ------------------------------------- the adapter functions on their own

\* Longest prompt, in characters, and longest usage log, in entries.
MaxPromptLen == 3
MaxLogLen == 2

PromptChars == {"{", "q"}
SeqsUpTo(S, n) == UNION {[1..m -> S] : m \in 0..n}

AdapterPrompts == SeqsUpTo(PromptChars, MaxPromptLen)

AdapterVars ==
    LET values == {<<"q">>, <<"{", "{">>}
        questions == {EmptyDict} \cup {"question" :> v : v \in values}
        topics == {EmptyDict} \cup {"topic" :> v : v \in values}
    IN  {a @@ b : a \in questions, b \in topics}

\* Entries of a usage log: full entries, one whose total is zero, a dict
\* without usage, a usage without prompt and completion counts, a non-dict.
UsageEntries ==
    {UsageEntry(10, 4, 6), UsageEntry(15, 5, 10), UsageEntry(0, 3, 0),
     DictV(EmptyDict), DictV("usage" :> ("total_tokens" :> 7)),
     StrV("openai/gpt-4o-mini")}

UsageLogs == {NoneV} \cup {ListV(l) : l \in SeqsUpTo(UsageEntries, MaxLogLen)}

\* A dict result that has a key named like one of its methods.
DictKeys ==
    ResultObj("dict", ("keys" :> MethodV("keys")) @@ ("items" :> MethodV("items")),
              TRUE, ("keys" :> StrV("k")) @@ ("answer" :> IntV(7)),
              "{'keys': 'k', 'answer': 7}", NoneV)

\* A Prediction whose answer is None and that has no usage accessor.
PredictionNone ==
    ResultObj("Prediction", ("answer" :> NoneV) @@ ("summary" :> IntV(-3)),
              FALSE, EmptyDict, "Prediction(answer=None, summary=-3)", NoneV)

ExtractResults == ApiResults \cup {DictKeys, PredictionNone}

ExtractConfigs ==
    {EmptyDict} \cup {"output_field" :> f : f \in {"answer", "summary", "keys", "missing"}}

UsageResults ==
    {[PredictionParis EXCEPT !.lm_usage = u] : u \in UsageLogs}
    \cup {DictSummary, StrResult, PredictionNone}

InitAdapter ==
    /\ compiled_modules = EmptyDict
    /\ instances = 0
    /\ last = [op |-> "import"]
    /\ log = {}
    /\ environ = EmptyDict
    /\ auth = NoAuth

\* The input-building block of call_api on its own.
BuildInputsStep(prompt, vars_) ==
    /\ last' = [op |-> "build_inputs", prompt |-> prompt, vars |-> vars_,
                kwargs |-> BuildInputs(prompt, vars_)]
    /\ UNCHANGED <<compiled_modules, instances, log, environ, auth>>

\* provider._extract_output(result, config)
ExtractOutputStep(result, config) ==
    LET out == ExtractOutput(result, config)
    IN  /\ last' = [op |-> "_extract_output", result |-> result, config |-> config,
                    raised |-> out.raised, value |-> out.value]
        /\ UNCHANGED <<compiled_modules, instances, log, environ, auth>>

\* provider._get_usage_stats(result)
GetUsageStatsStep(result) ==
    LET out == GetUsageStats(result)
    IN  /\ last' = [op |-> "_get_usage_stats", result |-> result,
                    raised |-> out.raised, value |-> out.value]
        /\ UNCHANGED <<compiled_modules, instances, log, environ, auth>>

NextAdapter ==
    \/ \E prompt \in AdapterPrompts, vars_ \in AdapterVars : BuildInputsStep(prompt, vars_)
    \/ \E result \in ExtractResults, config \in ExtractConfigs :
           ExtractOutputStep(result, config)
    \/ \E result \in UsageResults : GetUsageStatsStep(result)

SpecAdapter == InitAdapter /\ [][NextAdapter]_vars

\* -------------------------------------------------------- PromptfooAuth

BoolV(b) == [t |-> "bool", v |-> b]

DefaultBaseUrl == "https://promptfoo.dev.aws.kflow.ai"

PromptfooVars ==
    {"PROMPTFOO_AUTH_TOKEN", "PROMPTFOO_SHARE_API_BASE_URL",
     "PROMPTFOO_SHARE_APP_BASE_URL", "PROMPTFOO_API_HEADERS"}

\* The environment the process starts in.
AuthEnvs ==
    LET jwt == {EmptyDict} \cup {"CAKE_JWT_TOKEN" :> v : v \in {"", "jwt-manual"}}
        api == {EmptyDict, "PROMPTFOO_REMOTE_API_BASE_URL" :> "https://api.example"}
        app == {EmptyDict, "PROMPTFOO_REMOTE_APP_BASE_URL" :> "https://app.example"}
        old == {EmptyDict, [v \in PromptfooVars |-> "stale"]}
    IN  {a @@ b @@ c @@ d : a \in jwt, b \in api, c \in app, d \in old}

\* What the Credential Provider does when asked: get_recommended_auth_method
\* raises, get_token raises, or get_token returns a token, "" or None.
ProviderOutcomes ==
    {[method_ok |-> FALSE, token_ok |-> TRUE, token |-> NoneV, msg |-> "no method"],
     [method_ok |-> TRUE, token_ok |-> FALSE, token |-> NoneV, msg |-> "browser flow failed"],
     [method_ok |-> TRUE, token_ok |-> TRUE, token |-> NoneV, msg |-> ""],
     [method_ok |-> TRUE, token_ok |-> TRUE, token |-> StrV(""), msg |-> ""],
     [method_ok |-> TRUE, token_ok |-> TRUE, token |-> StrV("tok-1"), msg |-> ""]}

\* The four assignments to os.environ that both success paths make.
SetPromptfooEnv(env, token, base_url, app_url) ==
    Update(env, ("PROMPTFOO_AUTH_TOKEN" :> token)
                @@ ("PROMPTFOO_SHARE_API_BASE_URL" :> base_url)
                @@ ("PROMPTFOO_SHARE_APP_BASE_URL" :> app_url)
                @@ ("PROMPTFOO_API_HEADERS" :> ("Authorization: Bearer " \o token)))

\* configure_promptfoo_env as a function of the object, the environment and
\* the Credential Provider's behaviour: the environment afterwards, the
\* value returned, and whether the provider was asked.
ConfigureOutcome(self, env, p) ==
    LET manual_token == Get(env, "CAKE_JWT_TOKEN", "")
    IN  IF manual_token /= ""
            THEN [raised |-> FALSE, ret |-> BoolV(TRUE), asked |-> FALSE,
                  environ |-> SetPromptfooEnv(env, manual_token, self.base_url, self.app_url)]
        ELSE IF ~self.auth_available
            THEN [raised |-> FALSE, ret |-> NoneV, asked |-> FALSE, environ |-> env]
        ELSE IF ~p.method_ok \/ ~p.token_ok
            THEN [raised |-> FALSE, ret |-> BoolV(FALSE), asked |-> TRUE, environ |-> env]
        ELSE IF p.token.t = "str" /\ p.token.v /= ""
            THEN [raised |-> FALSE, ret |-> BoolV(TRUE), asked |-> TRUE,
                  environ |-> SetPromptfooEnv(env, p.token.v, self.base_url, self.app_url)]
        ELSE [raised |-> FALSE, ret |-> BoolV(FALSE), asked |-> TRUE, environ |-> env]

InitAuth ==
    /\ compiled_modules = EmptyDict
    /\ instances = 0
    /\ last = [op |-> "import"]
    /\ log = {}
    /\ environ \in AuthEnvs
    /\ auth = NoAuth

\* PromptfooAuth(): from_env_ok tells whether CakeAuthConfig.from_env() and
\* CakeAuthClient(config) succeed.
AuthInit(from_env_ok) ==
    /\ auth' = [constructed |-> TRUE,
                base_url |-> Get(environ, "PROMPTFOO_REMOTE_API_BASE_URL", DefaultBaseUrl),
                app_url |-> Get(environ, "PROMPTFOO_REMOTE_APP_BASE_URL", DefaultBaseUrl),
                auth_available |-> from_env_ok]
    /\ last' = [op |-> "PromptfooAuth"]
    /\ UNCHANGED <<compiled_modules, instances, log, environ>>

\* auth.configure_promptfoo_env()
ConfigurePromptfooEnv(p) ==
    LET o == ConfigureOutcome(auth, environ, p)
    IN  /\ auth.constructed
        /\ environ' = o.environ
        /\ last' = [op |-> "configure_promptfoo_env", before |-> environ, provider |-> p,
                    raised |-> o.raised, ret |-> o.ret, asked |-> o.asked]
        /\ UNCHANGED <<compiled_modules, instances, log, auth>>

NextAuth ==
    \/ \E from_env_ok \in BOOLEAN : AuthInit(from_env_ok)
    \/ \E p \in ProviderOutcomes : ConfigurePromptfooEnv(p)

SpecAuth == InitAuth /\ [][NextAuth]_vars

\* ------------------------------------------------------------ claims

DefaultModuleType == "predict"
DefaultSignature == "question -> answer"
RequestedType(config) == Get(config, "module_type", DefaultModuleType)
RequestedSignature(config) == Get(config, "signature", DefaultSignature)

IsResolution == last.op = "_get_or_create_module"
IsCall == last.op = "call_api"

\* C1: on one provider, all normally returning _get_or_create_module calls
\* with the same (module_type, signature) return the same instance, whatever
\* the other fields are, and a stored entry is never replaced or evicted.
C1_SameInstance ==
    /\ [](\A a, b \in log :
            (a.module_type = b.module_type /\ a.signature = b.signature) => a.id = b.id)
    /\ [](IsResolution /\ ~last.raised =>
            [module_type |-> RequestedType(last.config),
             signature |-> RequestedSignature(last.config),
             id |-> last.module.id] \in log)
    /\ [][\A k \in DOMAIN compiled_modules :
            k \in DOMAIN compiled_modules' /\ compiled_modules'[k] = compiled_modules[k]]_vars

\* A call asking for optimization with examples got the unoptimized instance
\* an earlier call with the same module_type and signature had stored.
C1_Witness ==
    /\ IsResolution /\ last.hit /\ ~last.raised
    /\ Get(last.config, "optimize", FALSE)
    /\ Len(Get(last.config, "examples", <<>>)) > 0
    /\ last.module.compiled_by = ""
    /\ Cardinality(DOMAIN compiled_modules) = 2

\* The condition under which the claim says the optimizer runs.
OptimizationApplies(config) ==
    /\ Get(config, "optimize", FALSE)
    /\ Len(Get(config, "examples", <<>>)) > 0
    /\ Get(config, "optimizer", "BootstrapFewShot")
           \in {"BootstrapFewShot", "BootstrapFewShotWithRandomSearch"}

\* C8: when _get_or_create_module creates a program, the optimizer is invoked
\* iff optimize is true, examples is non-empty and the optimizer kind is one
\* of the two supported; then the optimizer's program is stored and returned,
\* otherwise the base program is stored and returned unchanged.
C8_OptimizerIff ==
    (IsResolution /\ ~last.hit /\ last.base.id /= 0) =>
        /\ last.invoked <=> OptimizationApplies(last.config)
        /\ ~last.raised =>
            /\ \E k \in DOMAIN compiled_modules : compiled_modules[k] = last.module
            /\ IF OptimizationApplies(last.config)
                  THEN /\ last.module.id /= last.base.id
                       /\ last.module.student = last.base.id
                       /\ last.module.compiled_by
                              = Get(last.config, "optimizer", "BootstrapFewShot")
                  ELSE last.module = last.base

C8_Witness ==
    /\ IsResolution /\ ~last.hit /\ ~last.raised
    /\ OptimizationApplies(last.config)
    /\ last.module.compiled_by = "BootstrapFewShotWithRandomSearch"
    /\ last.module.id = 2 /\ last.base.id = 1

\* C2: two call_api requests with the same (module kind, signature) invoke
\* the same program instance: the second call's program is the one the
\* first created.
C2_CallsShareInstance ==
    [][(IsCall /\ last.called /\ last'.op = "call_api" /\ last'.called
        /\ RequestedType(last'.config) = RequestedType(last.config)
        /\ RequestedSignature(last'.config) = RequestedSignature(last.config))
       => last'.module.id = last.module.id]_vars

ErrorPrefix == "DSPy Provider Error: "

\* C3: call_api never propagates an exception; whenever a stage raises, the
\* response is exactly {error, output} with output "" and error the fixed
\* prefix followed by the exception's message, which is never empty.
C3_ErrorEnvelope ==
    IsCall =>
        /\ ~last.propagated
        /\ last.raised =>
            /\ DOMAIN last.response = {"error", "output"}
            /\ last.response["output"] = ""
            /\ last.response["error"] = ErrorPrefix \o last.msg
            /\ last.response["error"] /= ""

\* The provider could not be constructed for lack of OPENAI_API_KEY.
C3_Witness ==
    /\ IsCall /\ last.raised /\ last.stage = "provider"
    /\ "OPENAI_API_KEY" \notin DOMAIN environ
    /\ last.response["error"]
           = "DSPy Provider Error: OPENAI_API_KEY environment variable is required"

KnownModuleTypes == {"predict", "chain_of_thought", "program_of_thought", "react"}

\* C5: an unknown module_type raises nothing: a Predict program for the
\* given signature is built, stored under the descriptor's key and returned,
\* and call_api answers without an error envelope unless an external call
\* fails.
C5_UnknownKindFallsBack ==
    (IsCall /\ RequestedType(last.config) \notin KnownModuleTypes
       /\ last.stage /= "provider" /\ last.ext.ctor_ok) =>
        /\ last.base.kind = "Predict"
        /\ last.base.signature = RequestedSignature(last.config)
        /\ (last.ext.compile_ok \/ ~last.invoked) =>
            /\ last.stage /= "resolve"
            /\ last.module.kind = "Predict"
            /\ last.module.signature = RequestedSignature(last.config)
            /\ DOMAIN last.cache
                   = {RequestedType(last.config) \o "_" \o RequestedSignature(last.config)}
            /\ \A k \in DOMAIN last.cache : last.cache[k] = last.module
            /\ ~last.ext.call.raised => "error" \notin DOMAIN last.response

C5_Witness ==
    /\ IsCall /\ RequestedType(last.config) = "predict_v2"
    /\ last.stage = "done"
    /\ last.module.kind = "Predict"
    /\ "error" \notin DOMAIN last.response

\* C9: a success envelope has no error key, the extracted output, metadata
\* reporting the requested module_type, signature and optimize (or their
\* defaults), tokenUsage iff the extracted usage is non-empty, and debug (the
\* stringified result and its type name) iff config.debug is set.
C9_SuccessEnvelope ==
    (IsCall /\ ~last.raised) =>
        LET config == last.config
            response == last.response
        IN  /\ "error" \notin DOMAIN response
            /\ DOMAIN response \subseteq {"output", "tokenUsage", "metadata", "debug"}
            /\ {"output", "metadata"} \subseteq DOMAIN response
            /\ response["output"] = last.output
            /\ response["metadata"].module_type
                   = (IF "module_type" \in DOMAIN config THEN config["module_type"]
                      ELSE "predict")
            /\ response["metadata"].signature
                   = (IF "signature" \in DOMAIN config THEN config["signature"]
                      ELSE "question -> answer")
            /\ response["metadata"].optimized
                   = (IF "optimize" \in DOMAIN config THEN config["optimize"] ELSE FALSE)
            /\ "tokenUsage" \in DOMAIN response <=> DOMAIN last.usage /= {}
            /\ "tokenUsage" \in DOMAIN response => response["tokenUsage"] = last.usage
            /\ "debug" \in DOMAIN response
                   <=> ("debug" \in DOMAIN config /\ config["debug"])
            /\ "debug" \in DOMAIN response =>
                   response["debug"] = [full_result |-> last.result.repr,
                                        type |-> last.result.type]

\* Optimization was requested but not applied (unknown optimizer kind); the
\* metadata still says optimized, and usage and debug are both present.
C9_Witness ==
    /\ IsCall /\ ~last.raised
    /\ last.response["metadata"].optimized
    /\ ~last.invoked /\ last.module.compiled_by = ""
    /\ "tokenUsage" \in DOMAIN last.response
    /\ last.response["tokenUsage"]["total"] = 25
    /\ "debug" \in DOMAIN last.response

HasMarker(prompt) ==
    \E i \in 1..(Len(prompt) - 1) : prompt[i] = "{" /\ prompt[i + 1] = "{"

\* C4: the keyword inputs are exactly vars when the prompt contains "{{";
\* otherwise they are vars plus question, where question is vars["question"]
\* when vars has it and the prompt otherwise.
C4_BuildInputs ==
    last.op = "build_inputs" =>
        IF HasMarker(last.prompt)
            THEN last.kwargs = last.vars
            ELSE /\ DOMAIN last.kwargs = DOMAIN last.vars \cup {"question"}
                 /\ \A k \in DOMAIN last.vars : last.kwargs[k] = last.vars[k]
                 /\ "question" \notin DOMAIN last.vars
                        => last.kwargs["question"] = last.prompt

\* A plain prompt whose question is overridden by vars["question"].
C4_Witness ==
    /\ last.op = "build_inputs"
    /\ last.prompt = <<"q", "{", "q">>
    /\ "question" \in DOMAIN last.vars
    /\ last.kwargs["question"] = <<"{", "{">>
    /\ "topic" \in DOMAIN last.kwargs

\* C6: _extract_output never raises; it returns str of the attribute named
\* output_field when the result has it, else str of result[output_field]
\* when the result is a dict with that key, else str(result).
C6_ExtractOutput ==
    last.op = "_extract_output" =>
        LET field == IF "output_field" \in DOMAIN last.config
                        THEN last.config["output_field"] ELSE "answer"
            result == last.result
        IN  /\ ~last.raised
            /\ last.value =
                 (IF field \in DOMAIN result.attrs THEN Str(result.attrs[field])
                  ELSE IF result.is_dict /\ field \in DOMAIN result.items
                      THEN Str(result.items[field])
                  ELSE result.repr)

\* A result with neither the attribute nor the key: its str() is returned.
C6_Witness ==
    /\ last.op = "_extract_output"
    /\ last.result = DictSummary
    /\ last.config = EmptyDict
    /\ last.value = "{'summary': 'short'}"

\* The count an entry contributes to a sum, as the claim reads the log.
EntryTokens(entry, field) ==
    IF entry.t = "dict" /\ "usage" \in DOMAIN entry.v /\ field \in DOMAIN entry.v["usage"]
        THEN entry.v["usage"][field] ELSE 0

RECURSIVE LogTotal(_, _, _)
LogTotal(entries, field, n) ==
    IF n = 0 THEN 0 ELSE LogTotal(entries, field, n - 1) + EntryTokens(entries[n], field)

\* C7: _get_usage_stats never raises; with a usage accessor it returns the
\* sums of total_tokens, prompt_tokens and completion_tokens over the logged
\* entries, and the empty mapping exactly when the accessor is absent or the
\* summed total_tokens is zero.
C7_UsageStats ==
    last.op = "_get_usage_stats" =>
        LET result == last.result
            has == "get_lm_usage" \in DOMAIN result.attrs
            entries == IF result.lm_usage.t = "list" THEN result.lm_usage.v ELSE <<>>
            total == LogTotal(entries, "total_tokens", Len(entries))
        IN  /\ ~last.raised
            /\ DOMAIN last.value = {} <=> (~has \/ total = 0)
            /\ DOMAIN last.value /= {} =>
                 /\ DOMAIN last.value = {"total", "prompt", "completion"}
                 /\ last.value["total"] = total
                 /\ last.value["prompt"] = LogTotal(entries, "prompt_tokens", Len(entries))
                 /\ last.value["completion"]
                        = LogTotal(entries, "completion_tokens", Len(entries))

\* Two entries with total_tokens 10 and 15 give total 25.
C7_Witness ==
    /\ last.op = "_get_usage_stats"
    /\ last.result.lm_usage = ListV(<<UsageEntry(10, 4, 6), UsageEntry(15, 5, 10)>>)
    /\ last.value["total"] = 25 /\ last.value["prompt"] = 9
    /\ last.value["completion"] = 16

\* The call set all four variables: they differ from before or were already
\* what the call writes, and now hold the token and URLs given.
FourSet(token) ==
    /\ PromptfooVars \subseteq DOMAIN environ
    /\ environ["PROMPTFOO_AUTH_TOKEN"] = token
    /\ environ["PROMPTFOO_SHARE_API_BASE_URL"] = auth.base_url
    /\ environ["PROMPTFOO_SHARE_APP_BASE_URL"] = auth.app_url
    /\ environ["PROMPTFOO_API_HEADERS"] = "Authorization: Bearer " \o token

\* C10: configure_promptfoo_env never raises and returns a boolean: True
\* exactly when it has set the four variables (from CAKE_JWT_TOKEN without
\* asking the Credential Provider when that is set, else from the provider's
\* token); in every failure outcome it returns False and leaves the four
\* variables unchanged.
C10_BooleanSignal ==
    last.op = "configure_promptfoo_env" =>
        LET manual == IF "CAKE_JWT_TOKEN" \in DOMAIN last.before
                         THEN last.before["CAKE_JWT_TOKEN"] ELSE ""
            p == last.provider
            provided == auth.auth_available /\ p.method_ok /\ p.token_ok
                        /\ p.token.t = "str" /\ p.token.v /= ""
            success == manual /= "" \/ provided
        IN  /\ ~last.raised
            /\ last.ret.t = "bool"
            /\ last.ret.v <=> success
            /\ manual /= "" => ~last.asked /\ FourSet(manual)
            /\ (manual = "" /\ provided) => last.asked /\ FourSet(p.token.v)
            /\ ~success => environ = last.before

\* The dspy class a module_type stands for; kinds the provider does not
\* know stand for Predict.
KindFor(module_type) ==
    CASE module_type = "chain_of_thought" -> "ChainOfThought"
      [] module_type = "program_of_thought" -> "ProgramOfThought"
      [] module_type = "react" -> "ReAct"
      [] OTHER -> "Predict"

\* C11: the cache key determines program identity: descriptors that differ
\* in module_type or in signature never get the same cached instance, so the
\* program returned for a descriptor was built for that descriptor's own
\* module kind and signature.
C11_KeyDeterminesIdentity ==
    /\ \A a, b \in log :
           (a.module_type /= b.module_type \/ a.signature /= b.signature) => a.id /= b.id
    /\ (IsResolution /\ ~last.raised) =>
           /\ last.module.signature = RequestedSignature(last.config)
           /\ last.module.kind = KindFor(RequestedType(last.config))

\* A resolution during which optimizer.compile raised.
OptimizerRaised == IsResolution /\ last.compile_raised

\* C12: when the optimizer raises during a resolution, the exception leaves
\* _get_or_create_module, the cache is exactly what it was before the call and
\* holds no entry for the key, and the next resolution of the same key
\* constructs the program again instead of returning a cached one; call_api
\* answers such a failure with the error envelope and calls no program.
C12_OptimizerFailure ==
    /\ [](OptimizerRaised =>
              /\ last.raised
              /\ ~last.hit
              /\ last.module = NoModule
              /\ CacheKey(last.config) \notin DOMAIN compiled_modules)
    /\ [][(last'.op = "_get_or_create_module" /\ last'.compile_raised)
              => compiled_modules' = compiled_modules]_vars
    /\ [][(/\ OptimizerRaised
           /\ last'.op = "_get_or_create_module"
           /\ RequestedType(last'.config) = RequestedType(last.config)
           /\ RequestedSignature(last'.config) = RequestedSignature(last.config))
              => /\ ~last'.hit
                 /\ last'.base.id /= 0 \/ (last'.raised /\ ~last'.invoked)]_vars
    /\ []((/\ IsCall
           /\ Get(environ, "OPENAI_API_KEY", "") /= ""
           /\ last.ext.ctor_ok
           /\ ~last.ext.compile_ok
           /\ OptimizationApplies(last.config))
              => /\ last.stage = "resolve"
                 /\ last.raised
                 /\ ~last.called
                 /\ ~last.propagated
                 /\ last.cache = EmptyDict
                 /\ DOMAIN last.response = {"error", "output"}
                 /\ last.response["error"] = ErrorPrefix \o last.ext.msg
                 /\ last.response["output"] = "")

\* The optimizer raised on a registry that already holds another program.
C12_Witness ==
    /\ OptimizerRaised
    /\ last.raised
    /\ compiled_modules /= EmptyDict
    /\ CacheKey(last.config) \notin DOMAIN compiled_modules

====
